---- MODULE Spec2Model ----
(***************************************************************************)
(* Model of hyperleaup's Publisher (src/hyperleaup/publisher.py).          *)
(*                                                                         *)
(* One Publisher instance is constructed and publish() is called on it    *)
(* any number of times.  publish() is sequential; it is cut into one step  *)
(* per blocking call to the Tableau Server Client (TSC), so that the order *)
(* of the network calls is observable.  The collaborator (TSC and the      *)
(* server behind it) is the environment: every remote call may fail, and   *)
(* the server's content at the time of a call is arbitrary.                *)
(***************************************************************************)
EXTENDS Integers, Sequences, FiniteSets, TLC

VARIABLES
    self,               \* the Publisher instance: the nine fields of __init__
    pc,                 \* position of the current publish() call
    creation_mode,      \* argument of publish(): a string, as a sequence of characters
    as_job,             \* argument of publish()
    fileExists,         \* os.path.isfile(self.hyper_file_path) at the call
    serverProjects,     \* projects on the server during the session of this call
    serverDatasources,  \* datasources on the server during the session of this call
    datasources,        \* result of server.datasources.get, empty if not searched
    create_mode,        \* local variable create_mode (a TSC.Server.PublishMode)
    session,            \* "none", "open" or "closed": the signed-in session of this call
    calls,              \* the calls made to the collaborator during this call, in order
    passedMode,         \* mode= argument received by server.datasources.publish
    publish_job,        \* id of the JobItem returned by publish(as_job=True)
    jobState,           \* how the job ended, as wait_for_job found it
    publishedId,        \* id the server gave the datasource published by this call
    pending,            \* what leaves the with block: "returned" or the exception
    retval,             \* value returned by publish()
    outcome             \* how the call ended, as the caller sees it

vars == <<self, pc, creation_mode, as_job, fileExists, serverProjects,
          serverDatasources, datasources, create_mode, session, calls,
          passedMode, publish_job, jobState, publishedId, pending, retval,
          outcome>>

----------------------------------------------------------------------------
(* Bounds of the model *)

MaxProjects == 2        \* project ids the server hands out
MaxIds == 2             \* datasource ids and job ids the server hands out

(* Python's None, for identifiers and for string-valued variables *)
None == <<>>
NoneStr == "None"

(* Strings whose letters matter are sequences of one-character strings *)
LowerLetters == <<"a","b","c","d","e","f","g","h","i","j","k","l","m",
                  "n","o","p","q","r","s","t","u","v","w","x","y","z">>
UpperLetters == <<"A","B","C","D","E","F","G","H","I","J","K","L","M",
                  "N","O","P","Q","R","S","T","U","V","W","X","Y","Z">>

UpperChar(c) ==
    IF \E i \in 1..Len(LowerLetters) : LowerLetters[i] = c
    THEN UpperLetters[CHOOSE i \in 1..Len(LowerLetters) : LowerLetters[i] = c]
    ELSE c

(* str.upper() *)
Upper(s) == [i \in 1..Len(s) |-> UpperChar(s[i])]

CREATENEW == <<"C","R","E","A","T","E","N","E","W">>
APPEND == <<"A","P","P","E","N","D">>

(* TSC.Server.PublishMode *)
PublishMode == [CreateNew |-> "CreateNew", Overwrite |-> "Overwrite", Append |-> "Append"]

(* The values of creation_mode that callers pass *)
CreationModes ==
    { <<"C","r","e","a","t","e","N","e","w">>,
      <<"C","R","E","A","T","E","N","E","W">>,
      <<"A","p","p","e","n","d">>,
      <<"a","P","P","E","N","d">>,
      <<"O","v","e","r","w","r","i","t","e">>,
      <<"o","v","e","r","w","r","i","t","e">>,
      <<"R","e","p","l","a","c","e">>,
      <<>> }

ProjectNames == {"Sales", "Ops"}

ProjectIds == {<<"project", i>> : i \in 1..MaxProjects}
DatasourceIds == {<<"datasource", i>> : i \in 1..MaxIds}
JobIds == {<<"job", i>> : i \in 1..MaxIds}

(* What the server may hold: projects with distinct ids, datasources named
   within a project *)
ServerProjectSets ==
    { S \in SUBSET [id : ProjectIds, name : ProjectNames] :
        \A p, q \in S : p.id = q.id => p = q }
ServerDatasourceSets ==
    SUBSET { [name |-> "Orders", project_name |-> "Sales"],
             [name |-> "Stock", project_name |-> "Sales"],
             [name |-> "Orders", project_name |-> "Ops"] }

(* The orders in which the server may list the items of a set *)
Orderings(S) ==
    { s \in [1..Cardinality(S) -> S] :
        \A i, j \in 1..Cardinality(S) : i # j => s[i] # s[j] }

Count(log, op) == Cardinality({i \in 1..Len(log) : log[i].op = op})
Called(log, op) == \E i \in 1..Len(log) : log[i].op = op /\ log[i].ok
Call_(op, ok) == [op |-> op, ok |-> ok]

----------------------------------------------------------------------------
(* Publisher.__init__ *)
Publisher_init(tableau_server_url, username, password, site_id, project_name, datasource_name, hyper_file_path) ==
    [ tableau_server_url |-> tableau_server_url,
      username |-> username,
      password |-> password,
      site_id |-> site_id,
      project_name |-> project_name,
      project_id |-> None,
      datasource_name |-> datasource_name,
      datasource_luid |-> None,
      hyper_file_path |-> hyper_file_path ]

Constructed ==
    Publisher_init("https://tableau", "user", "secret", "site",
                   "Sales", "Orders", "/tmp/orders.hyper")

Init ==
    /\ self = Constructed
    /\ pc = "idle"
    /\ creation_mode = <<"C","r","e","a","t","e","N","e","w">>
    /\ as_job = FALSE
    /\ fileExists = TRUE
    /\ serverProjects = {}
    /\ serverDatasources = {}
    /\ datasources = <<>>
    /\ create_mode = NoneStr
    /\ session = "none"
    /\ calls = <<>>
    /\ passedMode = NoneStr
    /\ publish_job = None
    /\ jobState = NoneStr
    /\ publishedId = None
    /\ pending = NoneStr
    /\ retval = None
    /\ outcome = "idle"

----------------------------------------------------------------------------
(* Call without the check of lines 48-50: a missing file is not noticed *)
Call_NoFileCheck(mode, job, file) ==
    /\ pc \in {"idle", "done"}
    /\ creation_mode' = mode
    /\ as_job' = job
    /\ fileExists' = file
    /\ serverProjects' = {}
    /\ serverDatasources' = {}
    /\ datasources' = <<>>
    /\ create_mode' = NoneStr
    /\ session' = "none"
    /\ calls' = <<>>
    /\ passedMode' = NoneStr
    /\ publish_job' = None
    /\ jobState' = NoneStr
    /\ publishedId' = None
    /\ pending' = NoneStr
    /\ retval' = None
    /\ pc' = "use_server_version"
    /\ outcome' = "running"
    /\ UNCHANGED self

(* publish(), lines 44-54: the arguments are bound and the Hyper file is
   looked for.  A missing file raises IOError at once. *)
Call(mode, job, file) ==
    /\ pc \in {"idle", "done"}
    /\ creation_mode' = mode
    /\ as_job' = job
    /\ fileExists' = file
    /\ serverProjects' = {}
    /\ serverDatasources' = {}
    /\ datasources' = <<>>
    /\ create_mode' = NoneStr
    /\ session' = "none"
    /\ calls' = <<>>
    /\ passedMode' = NoneStr
    /\ publish_job' = None
    /\ jobState' = NoneStr
    /\ publishedId' = None
    /\ pending' = NoneStr
    /\ retval' = None
    /\ IF file
       THEN pc' = "use_server_version" /\ outcome' = "running"
       ELSE pc' = "done" /\ outcome' = "IOError"
    /\ UNCHANGED self

(* lines 56-58: server.use_server_version() asks the server for its version *)
UseServerVersion(ok) ==
    /\ pc = "use_server_version"
    /\ calls' = Append(calls, Call_("server_version", ok))
    /\ IF ok
       THEN pc' = "sign_in" /\ outcome' = outcome
       ELSE pc' = "done" /\ outcome' = "RemoteFailure"
    /\ UNCHANGED <<self, creation_mode, as_job, fileExists, serverProjects,
                   serverDatasources, datasources, create_mode, session,
                   passedMode, publish_job, jobState, publishedId, pending, retval>>

(* line 59: server.auth.sign_in(...) opens the session the with block scopes;
   projs and dss are what the server holds when the session opens *)
SignIn(ok, projs, dss) ==
    /\ pc = "sign_in"
    /\ calls' = Append(calls, Call_("sign_in", ok))
    /\ IF ok
       THEN /\ pc' = "projects_get" /\ session' = "open" /\ outcome' = outcome
            /\ serverProjects' = projs /\ serverDatasources' = dss
       ELSE /\ pc' = "done" /\ session' = session /\ outcome' = "RemoteFailure"
            /\ UNCHANGED <<serverProjects, serverDatasources>>
    /\ UNCHANGED <<self, creation_mode, as_job, fileExists,
                   datasources, create_mode,
                   passedMode, publish_job, jobState, publishedId, pending, retval>>

(* An exception raised inside the with block: it leaves through sign-out *)
Raise(exc) ==
    /\ pending' = exc
    /\ pc' = "sign_out"

(* lines 67-70: the last project of the list with the configured name wins;
   without a match self.project_id keeps the value it had *)
RECURSIVE ProjectLoop(_, _, _)
ProjectLoop(projects, project_id, project_name) ==
    IF projects = <<>>
    THEN project_id
    ELSE ProjectLoop(Tail(projects),
                     IF Head(projects).name = project_name
                     THEN Head(projects).id
                     ELSE project_id,
                     project_name)

(* lines 62-66: the server's answer to the search filtered by Name Equals *)
ProjectsGet(name) == {p \in serverProjects : p.name = name}

(* lines 61-75: the project search and the resolution of self.project_id *)
ProjectSearch(ok, projects) ==
    /\ pc = "projects_get"
    /\ calls' = Append(calls, Call_("projects_get", ok))
    /\ IF ~ok
       THEN Raise("RemoteFailure") /\ self' = self
       ELSE /\ self' = [self EXCEPT !.project_id =
                            ProjectLoop(projects, self.project_id, self.project_name)]
            /\ IF self'.project_id = None
               THEN Raise("ValueError:project")
               ELSE pc' = "creation_mode" /\ pending' = pending
    /\ UNCHANGED <<creation_mode, as_job, fileExists, serverProjects,
                   serverDatasources, datasources, create_mode, session,
                   passedMode, publish_job, jobState, publishedId, retval, outcome>>

(* DatasourceLoop that never turns the mode into Overwrite *)
DatasourceLoop_NoEscalation(dsl, mode, datasource_name) == mode

(* lines 90-95: the first datasource with the configured name turns the mode
   into Overwrite *)
RECURSIVE DatasourceLoop(_, _, _)
DatasourceLoop(dsl, mode, datasource_name) ==
    IF dsl = <<>>
    THEN mode
    ELSE IF Head(dsl).name = datasource_name
         THEN PublishMode.Overwrite
         ELSE DatasourceLoop(Tail(dsl), mode, datasource_name)

(* lines 82-89: the server's answer to the search filtered by ProjectName
   Equals and Name Equals *)
DatasourcesGet(project_name, name) ==
    {d \in serverDatasources : d.project_name = project_name /\ d.name = name}

(* lines 78-95: creation_mode is CreateNew in any case: the datasource is
   searched for *)
DatasourceSearch(ok, dsl) ==
    /\ pc = "creation_mode"
    /\ Upper(creation_mode) = CREATENEW
    /\ calls' = Append(calls, Call_("datasources_get", ok))
    /\ IF ~ok
       THEN /\ Raise("RemoteFailure")
            /\ create_mode' = PublishMode.CreateNew
            /\ datasources' = datasources
       ELSE /\ datasources' = dsl
            /\ create_mode' = DatasourceLoop(dsl, PublishMode.CreateNew,
                                             self.datasource_name)
            /\ pc' = "publish"
            /\ pending' = pending
    /\ UNCHANGED <<self, creation_mode, as_job, fileExists, serverProjects,
                   serverDatasources, session, passedMode, publish_job,
                   jobState, publishedId, retval, outcome>>

(* AppendMode that leaves create_mode at its initial CreateNew *)
AppendMode_KeepsCreateNew ==
    /\ pc = "creation_mode"
    /\ Upper(creation_mode) # CREATENEW
    /\ Upper(creation_mode) = APPEND
    /\ create_mode' = PublishMode.CreateNew
    /\ pc' = "publish"
    /\ UNCHANGED <<self, creation_mode, as_job, fileExists, serverProjects,
                   serverDatasources, datasources, session, calls, passedMode,
                   publish_job, jobState, publishedId, pending, retval, outcome>>

(* lines 96-97: creation_mode is Append in any case *)
AppendMode ==
    /\ pc = "creation_mode"
    /\ Upper(creation_mode) # CREATENEW
    /\ Upper(creation_mode) = APPEND
    /\ create_mode' = PublishMode.Append
    /\ pc' = "publish"
    /\ UNCHANGED <<self, creation_mode, as_job, fileExists, serverProjects,
                   serverDatasources, datasources, session, calls, passedMode,
                   publish_job, jobState, publishedId, pending, retval, outcome>>

(* InvalidMode raising outside the with block: the session is left open *)
InvalidMode_OutsideWith ==
    /\ pc = "creation_mode"
    /\ Upper(creation_mode) # CREATENEW
    /\ Upper(creation_mode) # APPEND
    /\ create_mode' = PublishMode.CreateNew
    /\ pending' = "ValueError:creation_mode"
    /\ outcome' = "ValueError:creation_mode"
    /\ pc' = "done"
    /\ UNCHANGED <<self, creation_mode, as_job, fileExists, serverProjects,
                   serverDatasources, datasources, session, calls, passedMode,
                   publish_job, jobState, publishedId, retval>>

(* lines 98-99: any other creation_mode raises ValueError *)
InvalidMode ==
    /\ pc = "creation_mode"
    /\ Upper(creation_mode) # CREATENEW
    /\ Upper(creation_mode) # APPEND
    /\ create_mode' = PublishMode.CreateNew
    /\ Raise("ValueError:creation_mode")
    /\ UNCHANGED <<self, creation_mode, as_job, fileExists, serverProjects,
                   serverDatasources, datasources, session, calls, passedMode,
                   publish_job, jobState, publishedId, retval, outcome>>

(* lines 107-112: publish as a job; the primitive returns a JobItem *)
PublishJob(ok, job) ==
    /\ pc = "publish"
    /\ as_job = TRUE
    /\ calls' = Append(calls, Call_("publish", ok))
    /\ passedMode' = create_mode
    /\ IF ok
       THEN publish_job' = job /\ pc' = "wait_for_job" /\ pending' = pending
       ELSE publish_job' = publish_job /\ Raise("RemoteFailure")
    /\ UNCHANGED <<self, creation_mode, as_job, fileExists, serverProjects,
                   serverDatasources, datasources, create_mode, session,
                   jobState, publishedId, retval, outcome>>

(* How a job may end; wait_for_job raises unless it ended in Success *)
JobStates == {"Success", "Failed", "Cancelled"}

(* WaitForJob that swallows the job's failure and returns the id anyway *)
WaitForJob_Swallow(state, id) ==
    /\ pc = "wait_for_job"
    /\ jobState' = state
    /\ calls' = Append(calls, Call_("wait_for_job", state = "Success"))
    /\ publishedId' = IF state = "Success" THEN id ELSE publishedId
    /\ retval' = publish_job
    /\ Raise("returned")
    /\ UNCHANGED <<self, creation_mode, as_job, fileExists, serverProjects,
                   serverDatasources, datasources, create_mode, session,
                   passedMode, publish_job, outcome>>

(* lines 113-117: server.jobs.wait_for_job blocks until the job ends, and
   the job's id is returned *)
WaitForJob(state, id) ==
    /\ pc = "wait_for_job"
    /\ jobState' = state
    /\ calls' = Append(calls, Call_("wait_for_job", state = "Success"))
    /\ IF state = "Success"
       THEN /\ publishedId' = id
            /\ retval' = publish_job
            /\ Raise("returned")
       ELSE /\ publishedId' = publishedId
            /\ retval' = retval
            /\ Raise("RemoteFailure")
    /\ UNCHANGED <<self, creation_mode, as_job, fileExists, serverProjects,
                   serverDatasources, datasources, create_mode, session,
                   passedMode, publish_job, outcome>>

(* PublishSync that returns the id without storing it on the instance *)
PublishSync_NoStore(ok, id) ==
    /\ pc = "publish"
    /\ as_job # TRUE
    /\ calls' = Append(calls, Call_("publish", ok))
    /\ passedMode' = create_mode
    /\ IF ok
       THEN /\ publishedId' = id
            /\ retval' = id
            /\ Raise("returned")
       ELSE /\ publishedId' = publishedId
            /\ retval' = retval
            /\ Raise("RemoteFailure")
    /\ UNCHANGED <<self, creation_mode, as_job, fileExists, serverProjects,
                   serverDatasources, datasources, create_mode, session,
                   publish_job, jobState, outcome>>

(* lines 118-126: publish synchronously; the id of the DatasourceItem the
   primitive returns is stored on the instance and returned *)
PublishSync(ok, id) ==
    /\ pc = "publish"
    /\ as_job # TRUE
    /\ calls' = Append(calls, Call_("publish", ok))
    /\ passedMode' = create_mode
    /\ IF ok
       THEN /\ publishedId' = id
            /\ self' = [self EXCEPT !.datasource_luid = id]
            /\ retval' = self'.datasource_luid
            /\ Raise("returned")
       ELSE /\ publishedId' = publishedId
            /\ self' = self
            /\ retval' = retval
            /\ Raise("RemoteFailure")
    /\ UNCHANGED <<creation_mode, as_job, fileExists, serverProjects,
                   serverDatasources, datasources, create_mode, session,
                   publish_job, jobState, outcome>>

(* line 59, leaving the with block: the context manager signs out, then the
   return value or the exception reaches the caller *)
SignOut ==
    /\ pc = "sign_out"
    /\ calls' = Append(calls, Call_("sign_out", TRUE))
    /\ session' = "closed"
    /\ outcome' = pending
    /\ pc' = "done"
    /\ UNCHANGED <<self, creation_mode, as_job, fileExists, serverProjects,
                   serverDatasources, datasources, create_mode, passedMode,
                   publish_job, jobState, publishedId, pending, retval>>

Next ==
    \/ \E mode \in CreationModes, job \in BOOLEAN, file \in BOOLEAN :
            Call(mode, job, file)
    \/ \E ok \in BOOLEAN : UseServerVersion(ok)
    \/ \E ok \in BOOLEAN, projs \in ServerProjectSets, dss \in ServerDatasourceSets :
            SignIn(ok, projs, dss)
    \/ \E ok \in BOOLEAN :
         \E projects \in Orderings(ProjectsGet(self.project_name)) :
            ProjectSearch(ok, projects)
    \/ \E ok \in BOOLEAN :
         \E dsl \in Orderings(DatasourcesGet(self.project_name, self.datasource_name)) :
            DatasourceSearch(ok, dsl)
    \/ AppendMode
    \/ InvalidMode
    \/ \E ok \in BOOLEAN, job \in JobIds : PublishJob(ok, job)
    \/ \E state \in JobStates, id \in DatasourceIds : WaitForJob(state, id)
    \/ \E ok \in BOOLEAN, id \in DatasourceIds : PublishSync(ok, id)
    \/ SignOut

Spec == Init /\ [][Next]_vars

----------------------------------------------------------------------------
(* Vocabulary of the properties *)

CreateNewName == <<"C","r","e","a","t","e","N","e","w">>
OverwriteName == <<"O","v","e","r","w","r","i","t","e">>
AppendName == <<"A","p","p","e","n","d">>

(* s is name up to the case of its letters *)
IsCaseVariant(s, name) ==
    /\ Len(s) = Len(name)
    /\ \A i \in 1..Len(s) : UpperChar(s[i]) = UpperChar(name[i])

IsKnownMode(s) ==
    \E name \in {CreateNewName, OverwriteName, AppendName} : IsCaseVariant(s, name)

ValueErrors == {"ValueError:project", "ValueError:creation_mode"}

(* The server holds no project with the configured name *)
ProjectMissing == \A p \in serverProjects : p.name # self.project_name

(* The server holds a datasource with the configured project and name *)
DatasourceOnServer ==
    \E d \in serverDatasources :
        d.name = self.datasource_name /\ d.project_name = self.project_name

(* No call to the collaborator failed during this publish call *)
NoRemoteFailure == \A i \in 1..Len(calls) : calls[i].ok

(* The search returned a datasource with the configured name *)
DatasourceFound ==
    \E i \in 1..Len(datasources) : datasources[i].name = self.datasource_name

----------------------------------------------------------------------------
(* C1, as stated: every publish call, whatever its outcome, has closed the
   session exactly once when it ends, the file-not-found path included. *)
C1_ClosedOnceOnEveryPath ==
    pc = "done" => Count(calls, "sign_out") = 1

(* C1, amended: a publish call that signed in closes its session exactly
   once, before the result or the error reaches the caller, on the success
   paths and on every failure inside the session; a call that fails before
   the session exists (file not found, failed version query, failed
   sign-in) closes nothing. *)
C1_ClosedOncePerSignIn ==
    /\ Count(calls, "sign_out") = (IF session = "closed" THEN 1 ELSE 0)
    /\ pc = "done" =>
         /\ session # "open"
         /\ Called(calls, "sign_in") <=> Count(calls, "sign_out") = 1
         /\ outcome \in ValueErrors \cup {"returned"} => Count(calls, "sign_out") = 1
         /\ ~Called(calls, "sign_in") =>
               /\ Count(calls, "sign_out") = 0
               /\ outcome \in {"IOError", "RemoteFailure"}

C1_Witness ==
    /\ pc = "done"
    /\ outcome = "ValueError:creation_mode"
    /\ Count(calls, "sign_out") = 1
    /\ session = "closed"

(* C2: a publish call that searched a server holding no project with the
   configured name ends in the project ValueError and never calls the
   publish primitive, whatever calls preceded it on the instance. *)
C2_MissingProjectRejected ==
    (pc = "done" /\ Called(calls, "projects_get") /\ ProjectMissing) =>
        /\ outcome = "ValueError:project"
        /\ Count(calls, "publish") = 0

(* C3: with the file present and the project resolved, a creation_mode that
   is CreateNew, Overwrite or Append in any letter case does not end in a
   ValueError and reaches the publish primitive. *)
C3_ThreeModesAccepted ==
    (/\ pc = "done"
     /\ IsKnownMode(creation_mode)
     /\ fileExists
     /\ Called(calls, "projects_get")
     /\ self.project_id # None
     /\ \A i \in 1..Len(calls) : calls[i].op = "datasources_get" => calls[i].ok) =>
        /\ outcome \notin ValueErrors
        /\ Count(calls, "publish") = 1

(* C4: a creation_mode that is none of the three names in any case makes
   publish end in a ValueError, raised after the project search and with no
   call of the publish primitive, and a missing project is the error
   reported when the project is missing. *)
C4_InvalidModeRejectedAfterProject ==
    (/\ pc = "done"
     /\ ~IsKnownMode(creation_mode)
     /\ fileExists
     /\ NoRemoteFailure) =>
        /\ outcome \in ValueErrors
        /\ Count(calls, "publish") = 0
        /\ Called(calls, "projects_get")
        /\ ProjectMissing => outcome = "ValueError:project"

(* C5: when the configured path is not a file, publish ends in IOError at
   once: no call to the collaborator is made and no session exists. *)
C5_MissingFileBeforeNetwork ==
    (pc # "idle" /\ ~fileExists) =>
        /\ pc = "done"
        /\ outcome = "IOError"
        /\ calls = <<>>
        /\ session = "none"

C5_Witness ==
    /\ pc = "done"
    /\ ~fileExists
    /\ outcome = "IOError"
    /\ self.project_id # None

(* C6: when creation_mode is CreateNew in any case and the publish primitive
   is called, the mode it receives is Overwrite if the datasource search
   returned a datasource with the configured name, and CreateNew if not. *)
C6_CreateNewEscalatesIffFound ==
    (IsCaseVariant(creation_mode, CreateNewName) /\ passedMode # NoneStr) =>
        /\ Called(calls, "datasources_get")
        /\ passedMode = (IF DatasourceFound
                         THEN PublishMode.Overwrite
                         ELSE PublishMode.CreateNew)

C6_Witness ==
    /\ IsCaseVariant(creation_mode, CreateNewName)
    /\ creation_mode # CreateNewName
    /\ DatasourceFound
    /\ passedMode = PublishMode.Overwrite

(* C7: when creation_mode is Append in any case, no datasource search is
   made, and the mode the publish primitive receives is Append, whether or
   not the datasource is on the server. *)
C7_AppendNeverSearches ==
    IsCaseVariant(creation_mode, AppendName) =>
        /\ Count(calls, "datasources_get") = 0
        /\ pc = "publish" => create_mode = PublishMode.Append
        /\ Count(calls, "publish") > 0 => passedMode = PublishMode.Append

C7_Witness ==
    /\ IsCaseVariant(creation_mode, AppendName)
    /\ creation_mode # AppendName
    /\ DatasourceOnServer
    /\ passedMode = PublishMode.Append
    /\ Count(calls, "datasources_get") = 0

(* C8: with as_job true, once the job wait has been made, publish returns
   the job's id exactly when the job ended in Success; a job that ended
   otherwise makes publish raise the collaborator's failure and return
   nothing.  A successful as_job call always went through the wait. *)
C8_JobIdIffJobSucceeded ==
    /\ (as_job /\ pc = "done" /\ Count(calls, "wait_for_job") = 1) =>
          /\ (outcome = "returned") <=> (jobState = "Success")
          /\ outcome = "returned" => retval = publish_job /\ retval \in JobIds
          /\ jobState # "Success" => outcome = "RemoteFailure" /\ retval = None
    /\ (as_job /\ pc = "done" /\ outcome = "returned") =>
          Count(calls, "wait_for_job") = 1

C8_Witness ==
    /\ as_job
    /\ pc = "done"
    /\ outcome = "returned"
    /\ jobState = "Success"
    /\ retval = publish_job

(* C9: with as_job false and a publish primitive that succeeds, publish
   returns the id of the datasource item the primitive returned, and the
   instance's datasource_luid holds that id after the call. *)
C9_SyncReturnsStoredId ==
    (~as_job /\ pc = "done" /\ Called(calls, "publish")) =>
        /\ outcome = "returned"
        /\ retval = publishedId
        /\ retval \in DatasourceIds
        /\ self.datasource_luid = retval

C9_Witness ==
    /\ ~as_job
    /\ pc = "done"
    /\ outcome = "returned"
    /\ retval = publishedId
    /\ self.datasource_luid = retval

(* C10: after every publish call that returns, synchronous or as a job, the
   instance's datasource_luid is set and is the id of the datasource that
   call published, and the seven configuration fields are as constructed. *)
C10_LuidSetOnEverySuccess ==
    (pc = "done" /\ outcome = "returned") =>
        /\ self.datasource_luid # None
        /\ self.datasource_luid = publishedId
        /\ [self EXCEPT !.project_id = None, !.datasource_luid = None] = Constructed

====
